---------------------------- MODULE Spec2Model ----------------------------
(***************************************************************************)
(* Model of gui/src/grid/chess/make_constants.py: the script that writes a *)
(* three-level table of random 64-bit values to table_values.rs.           *)
(*                                                                         *)
(* Text is modelled as sequences of one-character strings, the file as the *)
(* sequence of chunks that f.write appended to it (write-through: a chunk  *)
(* is in the file as soon as its f.write returns).  An integer is modelled *)
(* as the sequence of its base-16 digits (numbers 0..15), most significant *)
(* first, leading zeros allowed, because the values of the program do not  *)
(* fit the integers of the model checker.                                  *)
(***************************************************************************)
EXTENDS Integers, Sequences, FiniteSets, TLC

(***************************************************************************)
(* Bounds of the model.  The loops of lines 5, 7 and 9 run OuterN, MiddleN *)
(* and InnerN times; the program's own counts are ProgOuter, ProgMiddle    *)
(* and ProgInner.  A run draws at most MaxVaried values other than zero,   *)
(* and the script is run at most MaxRuns times.                            *)
(***************************************************************************)
OuterN == 2
MiddleN == 2
InnerN == 2
MaxVaried == 1
MaxRuns == 2

\* range(8), range(8), range(256), getrandbits(64), the width of 016X
ProgOuter == 8
ProgMiddle == 8
ProgInner == 256
Bits == 64
Width == 16

VARIABLES
    pc,        \* the line the script is about to execute, or exit/done/failed
    i, j, k,   \* completed iterations of the loops of lines 5, 7, 9
    val,       \* the variable val (<<>> before the first draw)
    f,         \* the file object: "unbound", "open" or "closed"
    exists,    \* whether table_values.rs exists
    file,      \* the content of table_values.rs, as chunks
    err,       \* the exception the script ended with, or "none"
    drawn,     \* history: the draws of this run, [i, j, k, v], in order
    written,   \* history: the chunks this run's f.write calls appended
    attempts,  \* history: the number of f.write calls of this run
    opens,     \* history: the number of successful open calls of this run
    ioFailed,  \* history: an open or a write of this run failed
    prior,     \* history: the destination when this run started
    varied,    \* the number of draws of this run that were not zero
    runs       \* the number of runs started

vars == <<pc, i, j, k, val, f, exists, file, err, drawn, written, attempts,
          opens, ioFailed, prior, varied, runs>>

----------------------------------------------------------------------------
(* Text *)

Spaces(n) == [x \in 1..n |-> " "]

HexUpper == <<"0", "1", "2", "3", "4", "5", "6", "7",
              "8", "9", "A", "B", "C", "D", "E", "F">>

\* the digits of a number without its leading zeros
Norm(v) ==
    LET nz == {n \in 1..Len(v) : v[n] # 0}
    IN  IF nz = {} THEN <<>>
        ELSE SubSeq(v, CHOOSE n \in nz : \A m \in nz : n <= m, Len(v))

\* presentation type X: the digits of the number in base 16, upper case
UpperHex(v) ==
    LET n == Norm(v)
    IN  IF n = <<>> THEN <<"0">> ELSE [d \in 1..Len(n) |-> HexUpper[n[d] + 1]]

\* a leading 0 and a width in a format spec: pad with zeros on the left up
\* to the width; a longer text is left as it is
ZeroPad(s, w) ==
    IF Len(s) >= w THEN s ELSE [x \in 1..(w - Len(s)) |-> "0"] \o s

\* a faulty variant: the width halved, as in {val:08X}
Format08X(v) == ZeroPad(UpperHex(v), Width \div 2)

\* {val:016X}
Format016X(v) == ZeroPad(UpperHex(v), Width)

\* the texts the script writes, by line
OuterOpen == <<"[", "\n">>

MiddleOpen == Spaces(4) \o <<"[", "\n">>

InnerOpen == Spaces(4) \o <<"[", "\n">>

\* a faulty variant: the comma after the literal is missing
ScalarLine_NoComma(v) ==
    Spaces(8) \o <<"0", "x">> \o Format016X(v) \o <<"u", "6", "4", "\n">>

\* a faulty variant: the line does not hold the value drawn
ScalarLine_Stale(v) ==
    Spaces(8) \o <<"0", "x">> \o Format016X(<<>>) \o <<"u", "6", "4", ",", "\n">>

\* line 11
ScalarLine(v) ==
    Spaces(8) \o <<"0", "x">> \o Format016X(v) \o <<"u", "6", "4", ",", "\n">>

InnerClose == Spaces(4) \o <<"]", ",", "\n">>

MiddleClose == Spaces(4) \o <<"]", ",", "\n">>

\* a faulty variant: the outermost bracket closes like the inner ones
OuterClose_Comma == <<"]", ",", "\n">>

\* line 14
OuterClose == <<"]", "\n">>

----------------------------------------------------------------------------
(* The random source *)

\* digit x (from the most significant) of FEDCBA9876543210 repeated
PatternDigit(x) == 15 - ((x - 1) % 16)

\* random.getrandbits(n): an integer of n random bits, so of (n + 3) \div 4
\* digits whose first holds ((n - 1) % 4) + 1 bits; the model draws from
\* two of them, zero and the one with the pattern above
getrandbits(n) ==
    LET len == (n + 3) \div 4
        top == 2 ^ (((n - 1) % 4) + 1)
    IN  {[x \in 1..len |-> 0],
         [x \in 1..len |-> IF x = 1 THEN PatternDigit(1) % top ELSE PatternDigit(x)]}

IsZero(v) == Norm(v) = <<>>

----------------------------------------------------------------------------
(* Control *)

\* the loops: where the script goes after n iterations
ForOuter(n) == IF n < OuterN THEN "L6" ELSE "L14"

ForMiddle(n) == IF n < MiddleN THEN "L8" ELSE "L13"

\* a faulty variant: one iteration short
ForInner_Short(n) == IF n < InnerN - 1 THEN "L10" ELSE "L12"

ForInner(n) == IF n < InnerN THEN "L10" ELSE "L12"

\* a faulty variant: mode "a" keeps what the file held
OpenMode_Append(old) == old

\* open(..., "w") truncates the file
OpenMode(old) == <<>>

\* a faulty variant: the exception is caught and the script goes on
OnError_Swallow(next) == next

\* an exception leaves the with block and the module: nothing catches it
OnError(next) == "failed"

\* a faulty variant: a plain open, f is left as it is
ExitHandle_Leak(h) == h

\* the with statement closes f when its block is left, on every path
ExitHandle(h) == "closed"

Init ==
    /\ pc = "L3"
    /\ i = 0 /\ j = 0 /\ k = 0
    /\ val = <<>>
    /\ f = "unbound"
    /\ \E p \in {[exists |-> FALSE, data |-> <<>>],
                 [exists |-> TRUE, data |-> <<>>],
                 [exists |-> TRUE, data |-> <<<<"s", "t", "a", "l", "e", "\n">>>>]} :
          /\ exists = p.exists
          /\ file = p.data
          /\ prior = p
    /\ err = "none"
    /\ drawn = <<>>
    /\ written = <<>>
    /\ attempts = 0
    /\ opens = 0
    /\ ioFailed = FALSE
    /\ varied = 0
    /\ runs = 1

\* line 3: with open("table_values.rs", "w") as f
Open ==
    /\ pc = "L3"
    /\ \E ok \in BOOLEAN :
          IF ok
          THEN /\ f' = "open"
               /\ exists' = TRUE
               /\ file' = OpenMode(file)
               /\ opens' = opens + 1
               /\ pc' = "L4"
               /\ UNCHANGED <<err, ioFailed>>
          ELSE /\ err' = "OSError"
               /\ ioFailed' = TRUE
               /\ pc' = OnError("L4")
               /\ UNCHANGED <<f, exists, file, opens>>
    /\ UNCHANGED <<i, j, k, val, drawn, written, attempts, prior, varied, runs>>

\* f.write(chunk): the chunk is appended, or the write fails, the with
\* statement closes f and the exception leaves the script
Write(chunk, next) ==
    /\ attempts' = attempts + 1
    /\ \E ok \in BOOLEAN :
          IF ok
          THEN /\ file' = Append(file, chunk)
               /\ written' = Append(written, chunk)
               /\ pc' = next
               /\ UNCHANGED <<f, err, ioFailed>>
          ELSE /\ f' = ExitHandle(f)
               /\ err' = "OSError"
               /\ ioFailed' = TRUE
               /\ pc' = OnError(next)
               /\ UNCHANGED <<file, written>>
    /\ UNCHANGED <<val, exists, drawn, opens, prior, varied, runs>>

\* line 4
WriteOuterOpen ==
    /\ pc = "L4"
    /\ Write(OuterOpen, ForOuter(0))
    /\ i' = 0
    /\ UNCHANGED <<j, k>>

\* line 6
WriteMiddleOpen ==
    /\ pc = "L6"
    /\ Write(MiddleOpen, ForMiddle(0))
    /\ j' = 0
    /\ UNCHANGED <<i, k>>

\* line 8
WriteInnerOpen ==
    /\ pc = "L8"
    /\ Write(InnerOpen, ForInner(0))
    /\ k' = 0
    /\ UNCHANGED <<i, j>>

\* line 10 with the value v
DrawValue(v) ==
    /\ pc = "L10"
    /\ IsZero(v) \/ varied < MaxVaried
    /\ val' = v
    /\ varied' = IF IsZero(v) THEN varied ELSE varied + 1
    /\ drawn' = Append(drawn, [i |-> i, j |-> j, k |-> k, v |-> v])
    /\ pc' = "L11"
    /\ UNCHANGED <<i, j, k, f, exists, file, err, written, attempts, opens,
                   ioFailed, prior, runs>>

\* line 10: val = random.getrandbits(64)
Draw == \E v \in getrandbits(Bits) : DrawValue(v)

\* line 11
WriteScalar ==
    /\ pc = "L11"
    /\ Write(ScalarLine(val), ForInner(k + 1))
    /\ k' = k + 1
    /\ UNCHANGED <<i, j>>

\* line 12
WriteInnerClose ==
    /\ pc = "L12"
    /\ Write(InnerClose, ForMiddle(j + 1))
    /\ j' = j + 1
    /\ UNCHANGED <<i, k>>

\* line 13
WriteMiddleClose ==
    /\ pc = "L13"
    /\ Write(MiddleClose, ForOuter(i + 1))
    /\ i' = i + 1
    /\ UNCHANGED <<j, k>>

\* line 14
WriteOuterClose ==
    /\ pc = "L14"
    /\ Write(OuterClose, "exit")
    /\ UNCHANGED <<i, j, k>>

\* the end of the with block: f is closed and the script ends
Close ==
    /\ pc = "exit"
    /\ f' = ExitHandle(f)
    /\ pc' = "done"
    /\ UNCHANGED <<i, j, k, val, exists, file, err, drawn, written, attempts,
                   opens, ioFailed, prior, varied, runs>>

\* the script is run again on the destination a completed run left; to keep
\* the state space small the next run follows a run that drew only zeros
Restart ==
    /\ pc = "done"
    /\ runs < MaxRuns
    /\ varied = 0
    /\ runs' = runs + 1
    /\ prior' = [exists |-> exists, data |-> file]
    /\ pc' = "L3"
    /\ i' = 0 /\ j' = 0 /\ k' = 0
    /\ val' = <<>>
    /\ f' = "unbound"
    /\ err' = "none"
    /\ drawn' = <<>>
    /\ written' = <<>>
    /\ attempts' = 0
    /\ opens' = 0
    /\ ioFailed' = FALSE
    /\ varied' = 0
    /\ UNCHANGED <<exists, file>>

Next ==
    \/ Open
    \/ WriteOuterOpen
    \/ WriteMiddleOpen
    \/ WriteInnerOpen
    \/ Draw
    \/ WriteScalar
    \/ WriteInnerClose
    \/ WriteMiddleClose
    \/ WriteOuterClose
    \/ Close
    \/ Restart

Spec == Init /\ [][Next]_vars


----------------------------------------------------------------------------
(* Reading a text back as a literal of type [[[u64; InnerN]; MiddleN]; OuterN] *)

IsSpace(c) == c = " " \/ c = "\n"

\* the number of spaces a chunk starts with
Indent(c) ==
    CHOOSE n \in 0..Len(c) :
        /\ n = Len(c) \/ c[n + 1] # " "
        /\ \A m \in 1..n : c[m] = " "

\* the white space a chunk starts with and ends with
LeadWS(c) ==
    CHOOSE n \in 0..Len(c) :
        /\ n = Len(c) \/ ~IsSpace(c[n + 1])
        /\ \A m \in 1..n : IsSpace(c[m])

TrailWS(c) ==
    CHOOSE n \in 0..Len(c) :
        /\ n = Len(c) \/ ~IsSpace(c[Len(c) - n])
        /\ \A m \in 1..n : IsSpace(c[Len(c) - m + 1])

\* a chunk without the white space around it
Body(c) == SubSeq(c, LeadWS(c) + 1, Len(c) - TrailWS(c))

\* the value of a hexadecimal digit, of either case
HexValOf ==
    ("0" :> 0) @@ ("1" :> 1) @@ ("2" :> 2) @@ ("3" :> 3) @@ ("4" :> 4) @@
    ("5" :> 5) @@ ("6" :> 6) @@ ("7" :> 7) @@ ("8" :> 8) @@ ("9" :> 9) @@
    ("A" :> 10) @@ ("B" :> 11) @@ ("C" :> 12) @@ ("D" :> 13) @@ ("E" :> 14) @@
    ("F" :> 15) @@ ("a" :> 10) @@ ("b" :> 11) @@ ("c" :> 12) @@ ("d" :> 13) @@
    ("e" :> 14) @@ ("f" :> 15)

HasSuffix(s, t) ==
    Len(s) >= Len(t) /\ SubSeq(s, Len(s) - Len(t) + 1, Len(s)) = t

\* the digits of 0x<digits>u64, with or without the comma after it
LitDigits(b) ==
    SubSeq(b, 3, (IF b[Len(b)] = "," THEN Len(b) - 1 ELSE Len(b)) - 3)

IsLit(b) ==
    /\ Len(b) >= 6
    /\ b[1] = "0" /\ b[2] = "x"
    /\ HasSuffix(b, <<"u", "6", "4">>) \/ HasSuffix(b, <<"u", "6", "4", ",">>)
    /\ LET dg == LitDigits(b)
       IN  dg # <<>> /\ \A n \in 1..Len(dg) : dg[n] \in DOMAIN HexValOf

\* the number 0x<digits>u64 denotes
LitValue(b) ==
    LET dg == LitDigits(b)
    IN  [n \in 1..Len(dg) |-> HexValOf[dg[n]]]

\* what a chunk is to the reader of the literal
Token(c) ==
    LET b == Body(c)
    IN  IF b = <<"[">> THEN [kind |-> "open", comma |-> FALSE, num |-> <<>>]
        ELSE IF b = <<"]">> THEN [kind |-> "close", comma |-> FALSE, num |-> <<>>]
        ELSE IF b = <<"]", ",">> THEN [kind |-> "close", comma |-> TRUE, num |-> <<>>]
        ELSE IF IsLit(b)
             THEN [kind |-> "lit", comma |-> b[Len(b)] = ",", num |-> LitValue(b)]
        ELSE [kind |-> "bad", comma |-> FALSE, num |-> <<>>]

\* below 2^64 = 16^16
InRange64(v) == Len(Norm(v)) <= 16

ParseStart ==
    [ok |-> TRUE, fin |-> FALSE, d |-> 0, sep |-> TRUE,
     t1 |-> <<>>, t2 |-> <<>>, t3 |-> <<>>]

ParseFail == [ParseStart EXCEPT !.ok = FALSE]

\* one token further: elements are separated by commas, a comma may follow
\* the last element, numbers stand at the third level only, and nothing
\* follows the closing bracket of the literal
ParseStep(st, tok) ==
    IF ~st.ok \/ st.fin \/ tok.kind = "bad" THEN ParseFail
    ELSE IF tok.kind = "open"
         THEN IF ~st.sep \/ st.d >= 3 THEN ParseFail
              ELSE IF st.d = 0 THEN [st EXCEPT !.d = 1, !.t1 = <<>>, !.sep = TRUE]
              ELSE IF st.d = 1 THEN [st EXCEPT !.d = 2, !.t2 = <<>>, !.sep = TRUE]
              ELSE [st EXCEPT !.d = 3, !.t3 = <<>>, !.sep = TRUE]
    ELSE IF tok.kind = "lit"
         THEN IF st.d # 3 \/ ~st.sep \/ ~InRange64(tok.num) THEN ParseFail
              ELSE [st EXCEPT !.t3 = Append(st.t3, Norm(tok.num)), !.sep = tok.comma]
    ELSE IF st.d = 3
         THEN [st EXCEPT !.d = 2, !.t2 = Append(st.t2, st.t3), !.sep = tok.comma]
    ELSE IF st.d = 2
         THEN [st EXCEPT !.d = 1, !.t1 = Append(st.t1, st.t2), !.sep = tok.comma]
    ELSE IF st.d = 1 /\ ~tok.comma
         THEN [st EXCEPT !.d = 0, !.fin = TRUE]
    ELSE ParseFail

RECURSIVE ParseFrom(_, _, _)
ParseFrom(chunks, n, st) ==
    IF n > Len(chunks) \/ ~st.ok THEN st
    ELSE LET nx == ParseStep(st, Token(chunks[n]))
         IN  IF nx.ok THEN ParseFrom(chunks, n + 1, nx) ELSE nx

\* the table a text denotes: ok, and t1[a][b][c] the number at [a-1][b-1][c-1]
ParseTable(chunks) ==
    LET st == ParseFrom(chunks, 1, ParseStart)
    IN  [ok |-> st.ok /\ st.fin, t1 |-> st.t1]

Entries(a, b, c) == a * b * c

ShapeOf(t) ==
    /\ Len(t) = OuterN
    /\ \A a \in 1..Len(t) :
          /\ Len(t[a]) = MiddleN
          /\ \A b \in 1..Len(t[a]) : Len(t[a][b]) = InnerN

CompleteTable(chunks) ==
    LET r == ParseTable(chunks) IN r.ok /\ ShapeOf(r.t1)

Last(s) == s[Len(s)]

\* the chunks of a text that are numbers
Scalars(chunks) == SelectSeq(chunks, LAMBDA c : Token(c).kind = "lit")

----------------------------------------------------------------------------
(* C1: when a run completes without an I/O failure, the emitted table has   *)
(* exactly OuterN outer blocks, each with exactly MiddleN inner blocks,     *)
(* each with exactly InnerN scalar entries, OuterN * MiddleN * InnerN       *)
(* entries in total (8, 8 and 256 in the program: 16,384 entries).          *)
C1_Shape ==
    pc = "done" =>
        LET r == ParseTable(file)
        IN  /\ r.ok
            /\ ShapeOf(r.t1)
            /\ Len(Scalars(file)) = Entries(OuterN, MiddleN, InnerN)
            /\ Entries(ProgOuter, ProgMiddle, ProgInner) = 16384

C1_Witness ==
    /\ pc = "done"
    /\ ~ioFailed
    /\ Len(ParseTable(file).t1) = OuterN
    /\ Len(ParseTable(file).t1[OuterN][MiddleN]) = InnerN

\* the text of a scalar line
IsUpperHexDigit(c) == \E h \in 1..16 : HexUpper[h] = c

IsScalarText(c) ==
    LET n == Indent(c)
    IN  /\ Len(c) = n + 23
        /\ c[n + 1] = "0" /\ c[n + 2] = "x"
        /\ \A d \in (n + 3)..(n + 18) : IsUpperHexDigit(c[d])
        /\ SubSeq(c, n + 19, n + 23) = <<"u", "6", "4", ",", "\n">>

(* C2: every scalar entry written is a value in [0, 2^64 - 1] and stands on *)
(* a line of its own as 0x, exactly 16 upper-case hexadecimal digits, u64   *)
(* and a comma.  Every chunk is the last chunk of written in the state its  *)
(* write leads to, and every drawn value is val in the state its draw leads *)
(* to; line 11 has just written when k > 0 at lines 10 and 12.              *)
C2_ScalarFormat ==
    /\ pc = "L11" => InRange64(val)
    /\ written # <<>> =>
          (Token(Last(written)).kind \notin {"open", "close"}
              => IsScalarText(Last(written)))
    /\ (pc \in {"L10", "L12"} /\ k > 0) => IsScalarText(Last(written))

C2_Witness ==
    /\ \E n \in 1..Len(written) :
          written[n] = Spaces(8) \o <<"0", "x",
              "F", "E", "D", "C", "B", "A", "9", "8",
              "7", "6", "5", "4", "3", "2", "1", "0", "u", "6", "4", ",", "\n">>
    /\ written # <<>>
    /\ Last(written) = Spaces(8) \o <<"0", "x",
              "0", "0", "0", "0", "0", "0", "0", "0",
              "0", "0", "0", "0", "0", "0", "0", "0", "u", "6", "4", ",", "\n">>
    /\ pc = "L12"

(* C3: round trip.  Reading the emitted text back as a nested array of      *)
(* 64-bit unsigned integers gives a table of the same shape whose entry at  *)
(* [a][b][c] is the c-th value drawn in the b-th inner block of the a-th    *)
(* outer block.                                                             *)
C3_RoundTrip ==
    pc = "done" =>
        LET r == ParseTable(file)
        IN  /\ r.ok
            /\ ShapeOf(r.t1)
            /\ Len(drawn) = Entries(OuterN, MiddleN, InnerN)
            /\ \A n \in 1..Len(drawn) :
                  /\ drawn[n].i = (n - 1) \div (MiddleN * InnerN)
                  /\ drawn[n].j = ((n - 1) \div InnerN) % MiddleN
                  /\ drawn[n].k = (n - 1) % InnerN
                  /\ r.t1[drawn[n].i + 1][drawn[n].j + 1][drawn[n].k + 1]
                        = Norm(drawn[n].v)

C3_Witness ==
    /\ pc = "done"
    /\ ParseTable(file).ok
    /\ \E n \in 1..Len(drawn) :
          /\ ~IsZero(drawn[n].v)
          /\ drawn[n].i = OuterN - 1 /\ drawn[n].j = 0 /\ drawn[n].k = InnerN - 1
          /\ ParseTable(file).t1[OuterN][1][InnerN] = Norm(drawn[n].v)

(* C4: a run that completes leaves a file that is exactly what this run     *)
(* wrote, a complete table, whatever the file held before: nothing of an    *)
(* earlier run or of any earlier content is left.                           *)
C4_Overwrite ==
    pc = "done" =>
        /\ exists
        /\ file = written
        /\ CompleteTable(file)

C4_Witness ==
    /\ runs = 2
    /\ pc = "done"
    /\ CompleteTable(prior.data)
    /\ CompleteTable(file)
    /\ file # prior.data

(* C5: a failure of open or of a write ends the run with the error: the     *)
(* script is at its failed end with OSError, and from then on nothing is    *)
(* drawn, no write is attempted and the file does not change.               *)
C5_ErrorSurfaces ==
    [][/\ ioFailed' => (err' = "OSError" /\ pc' = "failed")
       /\ ioFailed => UNCHANGED <<drawn, attempts, written, file, opens>>]_vars

C5_Witness ==
    /\ ioFailed
    /\ pc = "failed"
    /\ err = "OSError"
    /\ Len(drawn) >= 2
    /\ attempts = Len(written) + 1

(* C6: after any run the destination holds a complete table or what it held *)
(* before the run.                                                          *)
C6_AllOrNothing ==
    pc \in {"done", "failed"} =>
        \/ exists /\ CompleteTable(file)
        \/ exists = prior.exists /\ file = prior.data

(* C7: the file is opened once and closed on every path: at the end of a    *)
(* run f is closed (or was never bound, when open failed), and every write  *)
(* happens while f is open.                                                 *)
C7_HandleScoped ==
    /\ opens <= 1
    /\ pc \in {"done", "failed"} =>
          IF opens = 1 THEN f = "closed" ELSE f = "unbound" /\ attempts = 0
    /\ pc = "L3" => f = "unbound" /\ attempts = 0
    /\ pc \notin {"L3", "done", "failed"} => f = "open"
    /\ attempts > 0 => opens = 1

C7_Witness ==
    /\ pc = "failed"
    /\ f = "closed"
    /\ opens = 1
    /\ attempts >= 2

\* the depth after the first n chunks of a text
RECURSIVE DepthAfter(_, _)
DepthAfter(chunks, n) ==
    IF n = 0 THEN 0
    ELSE LET t == Token(chunks[n])
         IN  DepthAfter(chunks, n - 1)
                 + (IF t.kind = "open" THEN 1 ELSE IF t.kind = "close" THEN -1 ELSE 0)

\* the nesting depth of line n: of the bracket itself, or of the scalar
LineDepth(chunks, n) ==
    IF Token(chunks[n]).kind = "close" THEN DepthAfter(chunks, n)
    ELSE DepthAfter(chunks, n - 1)

(* C8: every line is indented by 4 spaces times its nesting depth: 0 for    *)
(* the outermost brackets, 4 for the middle blocks' brackets, 8 for the     *)
(* inner blocks' brackets, 12 for the scalar lines.                         *)
C8_Indentation ==
    \A n \in 1..Len(written) : Indent(written[n]) = 4 * LineDepth(written, n)

\* the nesting of a text, chunk by chunk
NestStart ==
    [bad |-> FALSE, fin |-> FALSE, d |-> 0, o |-> <<0, 0, 0>>, c |-> <<0, 0, 0>>,
     lits |-> 0]

NestStep(st, tok) ==
    IF st.bad \/ st.fin \/ tok.kind = "bad" THEN [st EXCEPT !.bad = TRUE]
    ELSE IF tok.kind = "open"
         THEN IF st.d >= 3 THEN [st EXCEPT !.bad = TRUE]
              ELSE [st EXCEPT !.d = st.d + 1, !.o[st.d + 1] = st.o[st.d + 1] + 1]
    ELSE IF tok.kind = "lit"
         THEN IF st.d # 3 THEN [st EXCEPT !.bad = TRUE]
              ELSE [st EXCEPT !.lits = st.lits + 1]
    ELSE IF tok.comma
         THEN IF st.d \notin {2, 3} THEN [st EXCEPT !.bad = TRUE]
              ELSE [st EXCEPT !.d = st.d - 1, !.c[st.d] = st.c[st.d] + 1]
    ELSE IF st.d # 1 THEN [st EXCEPT !.bad = TRUE]
         ELSE [st EXCEPT !.d = 0, !.c[1] = st.c[1] + 1, !.fin = TRUE]

RECURSIVE NestFrom(_, _, _)
NestFrom(chunks, n, st) ==
    IF n > Len(chunks) \/ st.bad THEN st
    ELSE LET nx == NestStep(st, Token(chunks[n]))
         IN  IF nx.bad THEN nx ELSE NestFrom(chunks, n + 1, nx)

LineCount(a, b, c) == 2 + 2 * a + 2 * a * b + a * b * c

=============================================================================
